---------------------------- MODULE Spec2Model ----------------------------
(***************************************************************************)
(* A model of bookmarktool's app.py: the Homepage config validator, the    *)
(* converter between the YAML list form and the in-memory ordered mapping  *)
(* (load_bookmarks / save_bookmarks), and the request handlers that load,  *)
(* mutate and rewrite the bookmarks file.                                  *)
(*                                                                         *)
(* Python / YAML values are tagged records:                                *)
(*   None -> Null, str -> Str(s), int -> Num(n), list -> List(items),      *)
(*   dict / OrderedDict -> Dict(pairs), pairs a sequence of <<key, value>> *)
(*   in insertion order with pairwise distinct keys.                       *)
(* A file's text is represented by what yaml.safe_load makes of it.        *)
(***************************************************************************)
EXTENDS Integers, Sequences, FiniteSets, TLC

VARIABLES
    files,      \* file name -> NoFile or the text stored under that name
    backups,    \* file name -> NoFile or the text of its '.backup' sibling
    pc,         \* "idle": no request in flight; "pending": request received
    request,    \* the request in flight, or the last one handled
    response,   \* the response to the last handled request
    probe,      \* the call a pure-function specification makes
    result,     \* what that call gave
    workers,    \* server thread -> its request, what it loaded, its response
    log         \* the loads and saves of the server threads, in their order

vars == <<files, backups, pc, request, response, probe, result, workers, log>>

---------------------------------------------------------------------------
(* Python values                                                           *)

Null == [t |-> "null"]
Str(s) == [t |-> "str", s |-> s]
Num(n) == [t |-> "int", n |-> n]
List(xs) == [t |-> "list", items |-> xs]
Dict(ps) == [t |-> "map", pairs |-> ps]

IsStr(v) == v.t = "str"
IsList(v) == v.t = "list"
IsDict(v) == v.t = "map"

\* bool(v): None, '', 0, [] and {} are false
Truthy(v) ==
    CASE v.t = "null" -> FALSE
      [] v.t = "str"  -> v.s # ""
      [] v.t = "int"  -> v.n # 0
      [] v.t = "list" -> v.items # <<>>
      [] v.t = "map"  -> v.pairs # <<>>

\* str(v) as an f-string formats a scalar
Fmt(v) ==
    CASE v.t = "null" -> "None"
      [] v.t = "str"  -> v.s
      [] v.t = "int"  -> ToString(v.n)
      [] v.t = "list" -> "[...]"
      [] v.t = "map"  -> "{...}"

\* s.startswith(p)
StartsWith(s, p) == Len(s) >= Len(p) /\ SubSeq(s, 1, Len(p)) = p

\* k in d
HasKey(d, k) == \E i \in DOMAIN d.pairs : d.pairs[i][1] = k

\* d[k], for k in d
Get(d, k) == d.pairs[CHOOSE i \in DOMAIN d.pairs : d.pairs[i][1] = k][2]

\* d.get(k, default)
GetOr(d, k, default) == IF HasKey(d, k) THEN Get(d, k) ELSE default

\* d[k] = v: in place when k is a key of d, at the end otherwise
DictSet(d, k, v) ==
    IF HasKey(d, k)
    THEN Dict([i \in DOMAIN d.pairs |->
                  IF d.pairs[i][1] = k THEN <<k, v>> ELSE d.pairs[i]])
    ELSE Dict(Append(d.pairs, <<k, v>>))

\* del d[k]
DictDel(d, k) ==
    LET keep(p) == p[1] # k IN Dict(SelectSeq(d.pairs, keep))

\* {key: value}
One(key, value) == Dict(<< <<key, value>> >>)

\* list(d.keys())
KeysOf(d) == [i \in DOMAIN d.pairs |-> d.pairs[i][1]]

\* what a function call gives: a returned value or a raised exception
Return(v) == [t |-> "return", v |-> v]
Raise(e) == [t |-> "raise", exc |-> e]
IsRaise(x) == x.t = "raise"
\* a loop body that ran to its end without returning
Fallthrough == [t |-> "next"]

---------------------------------------------------------------------------
(* validate_bookmarks_format                                               *)

\* a slip: the site-relative prefix '/' forgotten
HrefIsUrlNoSlash(h) ==
    \/ StartsWith(h, "http://")
    \/ StartsWith(h, "https://")

\* prop['href'].startswith(('http://', 'https://', '/'))
HrefIsUrl(h) ==
    \/ StartsWith(h, "http://")
    \/ StartsWith(h, "https://")
    \/ StartsWith(h, "/")

\* the loop over bookmark_data, from its i-th element
RECURSIVE BookmarkPropsLoop(_, _, _, _)
BookmarkPropsLoop(bookmark_name, bookmark_data, i, has_href) ==
    IF i > Len(bookmark_data)
    THEN IF ~has_href
         THEN Return(Str("Bookmark '" \o Fmt(bookmark_name)
                         \o "' must have an 'href' property"))
         ELSE Fallthrough
    ELSE LET prop == bookmark_data[i] IN
         IF ~IsDict(prop)
         THEN Return(Str("Properties for '" \o Fmt(bookmark_name)
                         \o "' should be dictionaries"))
         ELSE IF HasKey(prop, Str("href"))
         THEN LET h == Get(prop, Str("href")) IN
              \* a value that is no str has no startswith
              IF ~IsStr(h) THEN Raise("AttributeError")
              ELSE IF ~HrefIsUrl(h.s)
              THEN Return(Str("href in '" \o Fmt(bookmark_name)
                              \o "' should be a valid URL"))
              ELSE BookmarkPropsLoop(bookmark_name, bookmark_data, i + 1, TRUE)
         ELSE BookmarkPropsLoop(bookmark_name, bookmark_data, i + 1, has_href)

\* the loop over category_items, from its j-th element
RECURSIVE CategoryItemsLoop(_, _, _)
CategoryItemsLoop(category_name, category_items, j) ==
    IF j > Len(category_items) THEN Fallthrough
    ELSE LET bookmark == category_items[j] IN
         IF ~IsDict(bookmark)
         THEN Return(Str("Each bookmark in '" \o Fmt(category_name)
                         \o "' should be a dictionary"))
         ELSE IF Len(bookmark.pairs) # 1
         THEN Return(Str("Each bookmark should have exactly one key (bookmark name)"))
         ELSE LET bookmark_name == bookmark.pairs[1][1]
                  bookmark_data == bookmark.pairs[1][2]
              IN IF ~IsList(bookmark_data)
                 THEN Return(Str("Bookmark '" \o Fmt(bookmark_name)
                                 \o "' should contain a list of properties"))
                 ELSE LET r == BookmarkPropsLoop(bookmark_name,
                                                 bookmark_data.items, 1, FALSE)
                      IN IF r # Fallthrough THEN r
                         ELSE CategoryItemsLoop(category_name, category_items,
                                                j + 1)

\* the loop over data, from its k-th element
RECURSIVE BookmarksDataLoop(_, _)
BookmarksDataLoop(data, k) ==
    IF k > Len(data) THEN Return(Null)
    ELSE LET item == data[k] IN
         IF ~IsDict(item)
         THEN Return(Str("Each bookmark category should be a dictionary"))
         ELSE IF Len(item.pairs) # 1
         THEN Return(Str("Each category should have exactly one key (category name)"))
         ELSE LET category_name == item.pairs[1][1]
                  category_items == item.pairs[1][2]
              IN IF ~IsList(category_items)
                 THEN Return(Str("Category '" \o Fmt(category_name)
                                 \o "' should contain a list of bookmarks"))
                 ELSE LET r == CategoryItemsLoop(category_name,
                                                 category_items.items, 1)
                      IN IF r # Fallthrough THEN r
                         ELSE BookmarksDataLoop(data, k + 1)

validate_bookmarks_format(data) ==
    IF ~IsList(data)
    THEN Return(Str("Bookmarks should be a list of categories"))
    ELSE BookmarksDataLoop(data.items, 1)

---------------------------------------------------------------------------
(* validate_services_format                                                *)

RECURSIVE ServicePropsLoop(_, _, _)
ServicePropsLoop(service_name, service_data, i) ==
    IF i > Len(service_data) THEN Fallthrough
    ELSE LET prop == service_data[i] IN
         IF ~IsDict(prop)
         THEN Return(Str("Properties for service '" \o Fmt(service_name)
                         \o "' should be dictionaries"))
         ELSE IF HasKey(prop, Str("href")) /\ ~IsStr(Get(prop, Str("href")))
         THEN Return(Str("href in service '" \o Fmt(service_name)
                         \o "' should be a string"))
         ELSE ServicePropsLoop(service_name, service_data, i + 1)

RECURSIVE GroupDataLoop(_, _, _)
GroupDataLoop(group_name, group_data, j) ==
    IF j > Len(group_data) THEN Fallthrough
    ELSE LET service == group_data[j] IN
         IF ~IsDict(service)
         THEN Return(Str("Each service in '" \o Fmt(group_name)
                         \o "' should be a dictionary"))
         ELSE IF Len(service.pairs) # 1
         THEN Return(Str("Each service should have exactly one key (service name)"))
         ELSE LET service_name == service.pairs[1][1]
                  service_data == service.pairs[1][2]
              IN IF ~IsList(service_data)
                 THEN Return(Str("Service '" \o Fmt(service_name)
                                 \o "' should contain a list of properties"))
                 ELSE LET r == ServicePropsLoop(service_name,
                                                service_data.items, 1)
                      IN IF r # Fallthrough THEN r
                         ELSE GroupDataLoop(group_name, group_data, j + 1)

RECURSIVE ServicesDataLoop(_, _)
ServicesDataLoop(data, k) ==
    IF k > Len(data) THEN Return(Null)
    ELSE LET item == data[k] IN
         IF ~IsDict(item)
         THEN Return(Str("Each service group should be a dictionary"))
         ELSE IF Len(item.pairs) # 1
         THEN Return(Str("Each group should have exactly one key (group name)"))
         ELSE LET group_name == item.pairs[1][1]
                  group_data == item.pairs[1][2]
              IN IF ~IsList(group_data)
                 THEN Return(Str("Group '" \o Fmt(group_name)
                                 \o "' should contain a list of services"))
                 ELSE LET r == GroupDataLoop(group_name, group_data.items, 1)
                      IN IF r # Fallthrough THEN r
                         ELSE ServicesDataLoop(data, k + 1)

validate_services_format(data) ==
    IF ~IsList(data)
    THEN Return(Str("Services should be a list of groups"))
    ELSE ServicesDataLoop(data.items, 1)

---------------------------------------------------------------------------
(* validate_settings_format                                                *)

\* ['boxed', 'underlined', 'clean']
HeaderStyles == {Str("boxed"), Str("underlined"), Str("clean")}

\* a slip: the headerStyle check left out
validate_settings_format_NoHeaderStyle(data) ==
    IF ~IsDict(data)
    THEN Return(Str("Settings should be a dictionary of key-value pairs"))
    ELSE IF HasKey(data, Str("title")) /\ ~IsStr(Get(data, Str("title")))
    THEN Return(Str("title should be a string"))
    ELSE IF HasKey(data, Str("theme")) /\ ~IsStr(Get(data, Str("theme")))
    THEN Return(Str("theme should be a string"))
    ELSE IF HasKey(data, Str("color")) /\ ~IsStr(Get(data, Str("color")))
    THEN Return(Str("color should be a string"))
    ELSE IF HasKey(data, Str("layout")) /\ ~IsDict(Get(data, Str("layout")))
    THEN Return(Str("layout should be a dictionary"))
    ELSE IF HasKey(data, Str("providers")) /\ ~IsDict(Get(data, Str("providers")))
    THEN Return(Str("providers should be a dictionary"))
    ELSE Return(Null)

validate_settings_format(data) ==
    IF ~IsDict(data)
    THEN Return(Str("Settings should be a dictionary of key-value pairs"))
    ELSE IF HasKey(data, Str("title")) /\ ~IsStr(Get(data, Str("title")))
    THEN Return(Str("title should be a string"))
    ELSE IF HasKey(data, Str("theme")) /\ ~IsStr(Get(data, Str("theme")))
    THEN Return(Str("theme should be a string"))
    ELSE IF HasKey(data, Str("color")) /\ ~IsStr(Get(data, Str("color")))
    THEN Return(Str("color should be a string"))
    ELSE IF HasKey(data, Str("headerStyle"))
            /\ Get(data, Str("headerStyle")) \notin HeaderStyles
    THEN Return(Str("headerStyle should be 'boxed', 'underlined', or 'clean'"))
    ELSE IF HasKey(data, Str("layout")) /\ ~IsDict(Get(data, Str("layout")))
    THEN Return(Str("layout should be a dictionary"))
    ELSE IF HasKey(data, Str("providers")) /\ ~IsDict(Get(data, Str("providers")))
    THEN Return(Str("providers should be a dictionary"))
    ELSE Return(Null)

---------------------------------------------------------------------------
(* validate_widgets_format                                                 *)

RECURSIVE WidgetsLoop(_, _)
WidgetsLoop(data, k) ==
    IF k > Len(data) THEN Return(Null)
    ELSE LET widget == data[k] IN
         IF ~IsDict(widget)
         THEN Return(Str("Each widget should be a dictionary"))
         ELSE IF ~HasKey(widget, Str("type"))
         THEN Return(Str("Each widget must have a 'type' property"))
         ELSE LET widget_type == Get(widget, Str("type")) IN
              IF ~IsStr(widget_type)
              THEN Return(Str("Widget 'type' should be a string"))
              ELSE IF HasKey(widget, Str("options"))
                      /\ ~IsDict(Get(widget, Str("options")))
              THEN Return(Str("Widget options for '" \o Fmt(widget_type)
                              \o "' should be a dictionary"))
              ELSE WidgetsLoop(data, k + 1)

validate_widgets_format(data) ==
    IF ~IsList(data)
    THEN Return(Str("Widgets should be a list of widget objects"))
    ELSE WidgetsLoop(data.items, 1)

---------------------------------------------------------------------------
(* validate_homepage_format                                                *)

validate_homepage_format(filename, parsed_content) ==
    IF ~Truthy(parsed_content) THEN Return(Str("Empty configuration file"))
    ELSE IF filename = Str("bookmarks.yaml")
    THEN validate_bookmarks_format(parsed_content)
    ELSE IF filename = Str("services.yaml")
    THEN validate_services_format(parsed_content)
    ELSE IF filename = Str("settings.yaml")
    THEN validate_settings_format(parsed_content)
    ELSE IF filename = Str("widgets.yaml")
    THEN validate_widgets_format(parsed_content)
    ELSE Return(Null)

---------------------------------------------------------------------------
(* The stored text of a file, and yaml.safe_load / yaml.dump               *)

\* os.path.exists(path) is false
NoFile == [k |-> "absent"]
\* the zero-length text
EmptyText == [k |-> "empty"]
\* a non-empty text that is no YAML
BadText == [k |-> "bad"]
\* a non-empty text that is YAML for doc (Null: only comments or blanks)
Text(doc) == [k |-> "yaml", doc |-> doc]

\* yaml.safe_load(text)
safe_load(text) ==
    CASE text.k = "yaml"  -> Return(text.doc)
      [] text.k = "empty" -> Return(Null)
      [] text.k = "bad"   -> Raise("YAMLError")

\* yaml.dump(value, file, default_flow_style=False, sort_keys=False):
\* the text written is YAML for value, keys in their order
dump(value) == Text(value)

---------------------------------------------------------------------------
(* save_bookmarks                                                          *)

\* a slip: the bookmarks of a category written in reverse order
CategoryBookmarksReversed(bookmarks_dict) ==
    LET n == Len(bookmarks_dict.pairs) IN
    [j \in 1..n |->
        Dict(<< <<bookmarks_dict.pairs[n + 1 - j][1],
                  List(<<bookmarks_dict.pairs[n + 1 - j][2]>>)>> >>)]

\* category_bookmarks: one {bookmark_name: [properties]} per bookmark
CategoryBookmarks(bookmarks_dict) ==
    [j \in DOMAIN bookmarks_dict.pairs |->
        Dict(<< <<bookmarks_dict.pairs[j][1],
                  List(<<bookmarks_dict.pairs[j][2]>>)>> >>)]

\* homepage_format: one {category_name: category_bookmarks} per category
\* that has bookmarks
homepage_format(bookmarks) ==
    LET hasBookmarks(p) == Truthy(p[2])
        kept == SelectSeq(bookmarks.pairs, hasBookmarks)
    IN List([i \in DOMAIN kept |->
                Dict(<< <<kept[i][1], List(CategoryBookmarks(kept[i][2]))>> >>)])

\* the text save_bookmarks writes to BOOKMARKS_FILE
save_bookmarks(bookmarks) == dump(homepage_format(bookmarks))

---------------------------------------------------------------------------
(* load_bookmarks                                                          *)

\* the OrderedDict written when the file does not exist
default_bookmarks ==
    Dict(<<
      <<Str("Developer"), Dict(<<
          <<Str("Github"), Dict(<< <<Str("icon"), Str("/icons/github.png")>>,
                                   <<Str("href"), Str("https://github.com/")>> >>)>>
      >>)>>,
      <<Str("Social"), Dict(<<
          <<Str("Linkedin"), Dict(<< <<Str("abbr"), Str("LI")>>,
                                     <<Str("href"), Str("https://www.linkedin.com/feed/")>> >>)>>,
          <<Str("Facebook"), Dict(<< <<Str("abbr"), Str("FB")>>,
                                     <<Str("href"), Str("https://www.facebook.com/")>> >>)>>
      >>)>>,
      <<Str("Entertainment"), Dict(<<
          <<Str("YouTube"), Dict(<< <<Str("abbr"), Str("YT")>>,
                                    <<Str("href"), Str("https://music.youtube.com/")>> >>)>>
      >>)>>
    >>)

\* a slip: abbr left out of the converted properties
BookmarkPropertiesNoAbbr(properties) ==
    LET full == << <<Str("href"), GetOr(properties, Str("href"), Str(""))>>,
                   <<Str("icon"), GetOr(properties, Str("icon"), Null)>> >>
        notNone(p) == p[2] # Null
    IN Dict(SelectSeq(full, notNone))

\* {'href': properties.get('href', ''), 'icon': properties.get('icon'),
\*  'abbr': properties.get('abbr')} without the None values
BookmarkProperties(properties) ==
    LET full == << <<Str("href"), GetOr(properties, Str("href"), Str(""))>>,
                   <<Str("icon"), GetOr(properties, Str("icon"), Null)>>,
                   <<Str("abbr"), GetOr(properties, Str("abbr"), Null)>> >>
        notNone(p) == p[2] # Null
    IN Dict(SelectSeq(full, notNone))

\* for bookmark_name, properties_list in bookmark_item.items(), from the m-th
RECURSIVE LoadBookmarkItem(_, _, _, _)
LoadBookmarkItem(converted, category_name, pairs, m) ==
    IF m > Len(pairs) THEN converted
    ELSE LET bookmark_name == pairs[m][1]
             properties_list == pairs[m][2]
         IN IF IsList(properties_list) /\ Len(properties_list.items) > 0
            THEN LET properties == properties_list.items[1] IN
                 \* only a dict has .get
                 IF ~IsDict(properties) THEN Raise("AttributeError")
                 ELSE LoadBookmarkItem(
                        DictSet(converted, category_name,
                                DictSet(Get(converted, category_name),
                                        bookmark_name,
                                        BookmarkProperties(properties))),
                        category_name, pairs, m + 1)
            ELSE LoadBookmarkItem(converted, category_name, pairs, m + 1)

\* the loop goes on with what an iteration left, unless that raised
RECURSIVE LoadBookmarksList(_, _, _, _)
BookmarksListNext(c, category_name, items, j) ==
    IF IsRaise(c) THEN c ELSE LoadBookmarksList(c, category_name, items, j + 1)

\* for bookmark_item in bookmarks_list, from the j-th
LoadBookmarksList(converted, category_name, items, j) ==
    IF j > Len(items) THEN converted
    ELSE BookmarksListNext(
           IF IsDict(items[j])
           THEN LoadBookmarkItem(converted, category_name, items[j].pairs, 1)
           ELSE converted,
           category_name, items, j)

RECURSIVE LoadCategoryItem(_, _, _)
CategoryItemNext(c, pairs, n) ==
    IF IsRaise(c) THEN c ELSE LoadCategoryItem(c, pairs, n + 1)

\* for category_name, bookmarks_list in category_item.items(), from the n-th
LoadCategoryItem(converted, pairs, n) ==
    IF n > Len(pairs) THEN converted
    ELSE CategoryItemNext(
           IF IsList(pairs[n][2])
           THEN LoadBookmarksList(DictSet(converted, pairs[n][1], Dict(<<>>)),
                                  pairs[n][1], pairs[n][2].items, 1)
           ELSE DictSet(converted, pairs[n][1], Dict(<<>>)),
           pairs, n)

RECURSIVE LoadData(_, _, _)
DataNext(c, items, k) ==
    IF IsRaise(c) THEN c ELSE LoadData(c, items, k + 1)

\* for category_item in data, from the k-th
LoadData(converted, items, k) ==
    IF k > Len(items) THEN converted
    ELSE DataNext(IF IsDict(items[k])
                  THEN LoadCategoryItem(converted, items[k].pairs, 1)
                  ELSE converted,
                  items, k)

\* OrderedDict(iterable), from the i-th element: each element must be an
\* iterable of exactly two items, the first of them hashable
RECURSIVE OrderedDictFromItems(_, _, _)
OrderedDictFromItems(d, items, i) ==
    IF i > Len(items) THEN d
    ELSE LET e == items[i] IN
         IF e.t \in {"null", "int"} THEN Raise("TypeError")
         ELSE LET parts == CASE e.t = "list" -> e.items
                             [] e.t = "map"  -> KeysOf(e)
                             [] e.t = "str"  ->
                                  [c \in 1..Len(e.s) |-> Str(SubSeq(e.s, c, c))]
              IN IF Len(parts) # 2 THEN Raise("ValueError")
                 ELSE IF parts[1].t \in {"list", "map"} THEN Raise("TypeError")
                 ELSE OrderedDictFromItems(DictSet(d, parts[1], parts[2]),
                                           items, i + 1)

\* OrderedDict(x): a mapping is copied, a sequence or a string is read as
\* pairs, None or a number is refused
OrderedDictOf(x) ==
    CASE x.t = "map"  -> x
      [] x.t = "list" -> OrderedDictFromItems(Dict(<<>>), x.items, 1)
      [] x.t = "str"  ->
           OrderedDictFromItems(Dict(<<>>),
               [c \in 1..Len(x.s) |-> Str(SubSeq(x.s, c, c))], 1)
      [] OTHER -> Raise("TypeError")

\* for category_name, bookmarks_dict in data.items(), from the n-th
RECURSIVE LoadMapping(_, _, _)
LoadMapping(converted, pairs, n) ==
    IF n > Len(pairs) THEN converted
    ELSE LET d == OrderedDictOf(pairs[n][2]) IN
         IF IsRaise(d) THEN d
         ELSE LoadMapping(DictSet(converted, pairs[n][1], d), pairs, n + 1)

\* what load_bookmarks returns for what the conversion left
Converted(c) == IF IsRaise(c) THEN c ELSE Return(c)

\* the conversion of data = yaml.safe_load(file) or {}
ConvertData(data) ==
    Converted(IF IsList(data) THEN LoadData(Dict(<<>>), data.items, 1)
              ELSE IF IsDict(data) THEN LoadMapping(Dict(<<>>), data.pairs, 1)
              ELSE Dict(<<>>))

toOrdered(parsed) ==
    ConvertData(IF Truthy(parsed) THEN parsed ELSE Dict(<<>>))

\* load_bookmarks once the file is read
LoadParsed(parsed, file) ==
    [out |-> IF IsRaise(parsed) THEN parsed ELSE toOrdered(parsed.v),
     file |-> file]

\* load_bookmarks on a stored file: what it gives, and the file afterwards
load_bookmarks(file) ==
    IF file = NoFile
    THEN [out |-> Return(default_bookmarks),
          file |-> save_bookmarks(default_bookmarks)]
    ELSE LoadParsed(safe_load(file), file)

---------------------------------------------------------------------------
(* The request handlers                                                    *)

\* jsonify({'success': ..., 'error': ...}) with status 200, or the 500 that
\* Flask answers when the handler raises
Reply(success, error) == [status |-> 200, success |-> success, error |-> error]
ServerError(exc) == [status |-> 500, success |-> FALSE, error |-> exc]

\* what a handler leaves behind: the bookmarks file and the response
Handled(file, resp) == [file |-> file, response |-> resp]

\* del bookmarks[category][name], and del bookmarks[category] if that
\* emptied it
RemoveBookmark(bookmarks, category, name) ==
    LET removed == DictSet(bookmarks, category,
                           DictDel(Get(bookmarks, category), name))
    IN IF ~Truthy(Get(removed, category)) THEN DictDel(removed, category)
       ELSE removed

\* if category not in bookmarks: bookmarks[category] = OrderedDict()
EnsureCategory(bookmarks, category) ==
    IF ~HasKey(bookmarks, category) THEN DictSet(bookmarks, category, Dict(<<>>))
    ELSE bookmarks

\* {'href': href} with icon and abbr added when they are given
BookmarkData(href, icon, abbr) ==
    LET d1 == One(Str("href"), href)
        d2 == IF Truthy(icon) THEN DictSet(d1, Str("icon"), icon) ELSE d1
    IN IF Truthy(abbr) THEN DictSet(d2, Str("abbr"), abbr) ELSE d2

add_bookmark(file, form) ==
    LET l == load_bookmarks(file) IN
    IF IsRaise(l.out) THEN Handled(l.file, ServerError(l.out.exc))
    ELSE IF ~Truthy(form.category) \/ ~Truthy(form.name) \/ ~Truthy(form.href)
    THEN Handled(l.file, Reply(FALSE, "Category, name, and URL are required"))
    ELSE LET bookmarks == EnsureCategory(l.out.v, form.category) IN
         IF HasKey(Get(bookmarks, form.category), form.name)
         THEN Handled(l.file,
                      Reply(FALSE, "Bookmark \"" \o form.name.s
                                   \o "\" already exists in category \""
                                   \o form.category.s \o "\""))
         ELSE Handled(
                save_bookmarks(
                  DictSet(bookmarks, form.category,
                          DictSet(Get(bookmarks, form.category), form.name,
                                  BookmarkData(form.href, form.icon, form.abbr)))),
                Reply(TRUE, ""))

\* href or bookmarks.get(old_category, {}).get(old_name, {}).get('href', ''),
\* bookmarks being the document after the old bookmark was removed
EditHref(bookmarks, form) ==
    IF Truthy(form.href) THEN form.href
    ELSE GetOr(GetOr(GetOr(bookmarks, form.old_category, Dict(<<>>)),
                     form.old_name, Dict(<<>>)),
               Str("href"), Str(""))

edit_bookmark(file, form) ==
    LET l == load_bookmarks(file) IN
    IF IsRaise(l.out) THEN Handled(l.file, ServerError(l.out.exc))
    ELSE IF ~Truthy(form.old_category) \/ ~Truthy(form.old_name)
    THEN Handled(l.file, Reply(FALSE, "Original category and name are required"))
    ELSE IF ~HasKey(l.out.v, form.old_category)
            \/ ~HasKey(Get(l.out.v, form.old_category), form.old_name)
    THEN Handled(l.file, Reply(FALSE, "Bookmark not found"))
    ELSE LET removed == RemoveBookmark(l.out.v, form.old_category, form.old_name)
             bookmarks == EnsureCategory(removed, form.new_category)
             bookmark_data ==
                 BookmarkData(EditHref(bookmarks, form),
                              form.icon, form.abbr)
         IN Handled(
              save_bookmarks(
                DictSet(bookmarks, form.new_category,
                        DictSet(Get(bookmarks, form.new_category),
                                form.new_name, bookmark_data))),
              Reply(TRUE, ""))

delete_bookmark(file, form) ==
    LET l == load_bookmarks(file) IN
    IF IsRaise(l.out) THEN Handled(l.file, ServerError(l.out.exc))
    ELSE IF ~Truthy(form.category) \/ ~Truthy(form.name)
    THEN Handled(l.file, Reply(FALSE, "Category and name are required"))
    ELSE IF ~HasKey(l.out.v, form.category)
            \/ ~HasKey(Get(l.out.v, form.category), form.name)
    THEN Handled(l.file, Reply(FALSE, "Bookmark not found"))
    ELSE Handled(save_bookmarks(RemoveBookmark(l.out.v, form.category, form.name)),
                 Reply(TRUE, ""))

Digits == "0123456789"
IsDigit(c) == \E d \in 1..Len(Digits) : SubSeq(Digits, d, d) = c
DigitValue(c) == (CHOOSE d \in 1..Len(Digits) : SubSeq(Digits, d, d) = c) - 1

\* the number a string of digits writes
RECURSIVE DigitsValue(_, _)
DigitsValue(s, acc) ==
    IF s = "" THEN acc
    ELSE DigitsValue(SubSeq(s, 2, Len(s)), 10 * acc + DigitValue(SubSeq(s, 1, 1)))

\* int(s): an optional sign and one digit or more, ValueError otherwise
ParseInt(s) ==
    LET signed == s # "" /\ SubSeq(s, 1, 1) \in {"-", "+"}
        body == IF signed THEN SubSeq(s, 2, Len(s)) ELSE s
    IN IF body = "" \/ \E i \in 1..Len(body) : ~IsDigit(SubSeq(body, i, i))
       THEN Raise("ValueError")
       ELSE Return(IF signed /\ SubSeq(s, 1, 1) = "-"
                   THEN 0 - DigitsValue(body, 0) ELSE DigitsValue(body, 0))

\* a slip: the bookmark always goes to the end of the target category
InsertAtEnd(items, position, item) == Append(items, item)

\* target_items with item appended when position >= len(target_items) and
\* inserted with list.insert(position, item) otherwise, which counts a
\* negative position from the end
InsertAt(items, position, item) ==
    LET at == IF position >= Len(items) THEN Len(items)
              ELSE IF position >= 0 THEN position
              ELSE IF Len(items) + position > 0 THEN Len(items) + position
              ELSE 0
    IN SubSeq(items, 1, at) \o <<item>> \o SubSeq(items, at + 1, Len(items))

\* OrderedDict(target_items): a key met again keeps its place and takes the
\* later value
RECURSIVE OrderedDictOfPairs(_, _, _)
OrderedDictOfPairs(d, pairs, i) ==
    IF i > Len(pairs) THEN d
    ELSE OrderedDictOfPairs(DictSet(d, pairs[i][1], pairs[i][2]), pairs, i + 1)

reorder_bookmark(file, form) ==
    LET l == load_bookmarks(file) IN
    IF IsRaise(l.out) THEN Handled(l.file, ServerError(l.out.exc))
    ELSE IF ~Truthy(form.source_category) \/ ~Truthy(form.bookmark_name)
            \/ ~Truthy(form.target_category) \/ form.position = Null
    THEN Handled(l.file, Reply(FALSE, "Missing required parameters"))
    ELSE LET position == ParseInt(form.position.s) IN
    IF IsRaise(position)
    THEN Handled(l.file, Reply(FALSE, "Invalid position value"))
    ELSE IF ~HasKey(l.out.v, form.source_category)
            \/ ~HasKey(Get(l.out.v, form.source_category), form.bookmark_name)
    THEN Handled(l.file,
                 Reply(FALSE, "Bookmark \"" \o form.bookmark_name.s
                              \o "\" not found in category \""
                              \o form.source_category.s \o "\""))
    ELSE LET bookmark_data == Get(Get(l.out.v, form.source_category),
                                  form.bookmark_name)
             removed == RemoveBookmark(l.out.v, form.source_category,
                                       form.bookmark_name)
             bookmarks == EnsureCategory(removed, form.target_category)
             target_items ==
                 InsertAt(Get(bookmarks, form.target_category).pairs,
                          position.v, <<form.bookmark_name, bookmark_data>>)
         IN Handled(
              save_bookmarks(
                DictSet(bookmarks, form.target_category,
                        OrderedDictOfPairs(Dict(<<>>), target_items, 1))),
              Reply(TRUE, ""))

\* allowed_files
AllowedFiles == {Str("bookmarks.yaml"), Str("services.yaml"),
                 Str("settings.yaml"), Str("widgets.yaml")}

\* a slip: the text is written before it is validated
save_config_NoValidation(fs, bs, form) ==
    IF form.file \notin AllowedFiles
    THEN [files |-> fs, backups |-> bs, response |-> Reply(FALSE, "File not allowed")]
    ELSE IF form.content = Null \/ form.content = EmptyText
    THEN [files |-> fs, backups |-> bs,
          response |-> Reply(FALSE, "No content provided")]
    ELSE LET name == form.file.s IN
         [files |-> [fs EXCEPT ![name] = form.content],
          backups |-> IF fs[name] # NoFile THEN [bs EXCEPT ![name] = fs[name]]
                      ELSE bs,
          response |-> Reply(TRUE, "")]

\* save_config: the files, their backups and the response it leaves behind
save_config(fs, bs, form) ==
    IF form.file \notin AllowedFiles
    THEN [files |-> fs, backups |-> bs, response |-> Reply(FALSE, "File not allowed")]
    ELSE IF form.content = Null \/ form.content = EmptyText
    THEN [files |-> fs, backups |-> bs,
          response |-> Reply(FALSE, "No content provided")]
    ELSE LET name == form.file.s
             parsed_content == safe_load(form.content)
         IN IF IsRaise(parsed_content)
            THEN [files |-> fs, backups |-> bs,
                  response |-> Reply(FALSE, "YAML syntax error: " \o parsed_content.exc)]
            ELSE LET validation_error ==
                         validate_homepage_format(form.file, parsed_content.v)
                 IN IF IsRaise(validation_error)
                    THEN [files |-> fs, backups |-> bs,
                          response |-> Reply(FALSE, "Save error: "
                                                    \o validation_error.exc)]
                    ELSE IF Truthy(validation_error.v)
                    THEN [files |-> fs, backups |-> bs,
                          response |-> Reply(FALSE, "Homepage format error: "
                                                    \o validation_error.v.s)]
                    ELSE [files |-> [fs EXCEPT ![name] = form.content],
                          backups |-> IF fs[name] # NoFile
                                      THEN [bs EXCEPT ![name] = fs[name]]
                                      ELSE bs,
                          response |-> Reply(TRUE, "")]

---------------------------------------------------------------------------
(* Inputs of the pure-function specifications                              *)

\* the most property mappings a generated bookmark entry carries
MaxProps == 2

SeqsUpTo(S, n) == UNION {[1..k -> S] : k \in 0..n}

Reverse(seq) == [i \in DOMAIN seq |-> seq[Len(seq) + 1 - i]]

ConfigFiles == {"bookmarks.yaml", "services.yaml", "settings.yaml",
                "widgets.yaml"}

CatNames == {Str("Dev"), Str("Fun")}
BmNames == {Str("Site"), Str("Wiki")}

\* property mappings a hand-written bookmarks.yaml may hold
HrefProps ==
    {One(Str("href"), h) : h \in {Str("/x"), Str("http://x"), Str("https://x"),
                                  Str("ftp://x"), Str(""), Num(1), Null}}
    \cup {One(Str("icon"), Str("/i.png")), Dict(<<>>),
          Dict(<< <<Str("icon"), Str("/i.png")>>, <<Str("href"), Str("/x")>> >>)}

\* well-shaped bookmarks documents, a bookmark's property mappings, n at
\* most, varied
HrefDocs(n) ==
    LET lists == {List(ps) : ps \in SeqsUpTo(HrefProps, n)}
        few == {List(<<One(Str("href"), Str("/y"))>>),
                List(<<One(Str("abbr"), Str("WK"))>>),
                List(<<One(Str("href"), Str("gopher://y"))>>)}
    IN {List(<<One(Str("Dev"), List(<<One(Str("Site"), a)>>))>>) : a \in lists}
       \cup {List(<<One(Str("Dev"), List(<<One(Str("Site"), a),
                                           One(Str("Wiki"), b)>>))>>) :
                a \in lists, b \in few}
       \cup {List(<<One(Str("Dev"), List(<<One(Str("Wiki"), b),
                                           One(Str("Site"), a)>>))>>) :
                a \in lists, b \in few}
       \cup {List(<<One(Str("Dev"), List(<<One(Str("Site"), a)>>)),
                    One(Str("Fun"), List(<<One(Str("Wiki"), b)>>))>>) :
                a \in lists, b \in few}

\* documents of the wrong shape at one level or another
ShapeDocs ==
    LET good == List(<<One(Str("href"), Str("/x"))>>)
        bm == One(Str("Site"), good)
        values == {Null, Num(0), Num(7), Str(""), Str("text"), List(<<>>),
                   Dict(<<>>), good, bm,
                   Dict(<< <<Str("Site"), good>>, <<Str("Wiki"), good>> >>)}
    IN values
       \cup {List(<<v>>) : v \in values}
       \cup {List(<<One(Str("Dev"), v)>>) : v \in values}
       \cup {List(<<One(Str("Dev"), List(<<v>>))>>) : v \in values}
       \cup {List(<<One(Str("Dev"), List(<<One(Str("Site"), v)>>))>>) :
                v \in values}
       \cup {List(<<One(Str("Dev"), List(<<One(Str("Site"), List(<<v>>))>>))>>) :
                v \in values}
       \cup {List(<<One(Str("Dev"), List(<<bm>>)), v>>) : v \in values}
       \cup {List(<<One(Null, List(<<One(Num(1), good)>>))>>)}

\* widgets.yaml documents
WidgetDocs ==
    LET widgets == {One(Str("type"), Str("clock")),
                    One(Str("type"), Num(3)),
                    One(Str("options"), Dict(<<>>)),
                    Dict(<< <<Str("type"), Str("clock")>>,
                            <<Str("options"), Dict(<<>>)>> >>),
                    Dict(<< <<Str("type"), Str("clock")>>,
                            <<Str("options"), Str("big")>> >>),
                    Str("clock")}
    IN {List(ws) : ws \in SeqsUpTo(widgets, 2)}

\* services.yaml documents
ServiceDocs ==
    LET props == {One(Str("href"), Str("http://x")), One(Str("href"), Num(1)),
                  One(Str("icon"), Str("/i.png")), Str("text")}
    IN {List(<<One(Str("Group"), List(<<One(Str("Svc"), List(ps))>>))>>) :
           ps \in SeqsUpTo(props, 2)}

SettingKeys == <<"title", "theme", "color", "headerStyle", "layout", "providers">>

\* for each settings key a value the validator accepts and one it refuses
SettingGood ==
    [title |-> Str("My Page"), theme |-> Str("dark"), color |-> Str("slate"),
     headerStyle |-> Str("underlined"), layout |-> Dict(<<>>),
     providers |-> One(Str("openweathermap"), Str("key"))]
SettingBad ==
    [title |-> Num(5), theme |-> Null, color |-> List(<<Str("slate")>>),
     headerStyle |-> Str("fancy"), layout |-> List(<<>>),
     providers |-> Str("none")]

\* settings.yaml documents: every key absent, accepted or refused, the keys
\* in either order, and single-key documents with other values
SettingsDocs ==
    LET pairsOf(choice) ==
            LET all == [i \in DOMAIN SettingKeys |->
                          <<Str(SettingKeys[i]),
                            IF choice[i] = "good" THEN SettingGood[SettingKeys[i]]
                            ELSE SettingBad[SettingKeys[i]],
                            choice[i]>>]
                present(p) == p[3] # "absent"
                kept == SelectSeq(all, present)
            IN [i \in DOMAIN kept |-> <<kept[i][1], kept[i][2]>>]
        choices == [DOMAIN SettingKeys -> {"absent", "good", "bad"}]
    IN {Dict(pairsOf(c)) : c \in choices}
       \cup {Dict(Reverse(pairsOf(c))) : c \in choices}
       \cup {One(Str("headerStyle"), v) :
                v \in {Str("boxed"), Str("clean"), Str("Boxed"), Str(""), Num(1),
                       Null, List(<<Str("boxed")>>)}}
       \cup {One(Str("language"), Num(1)), One(Null, Str("title")),
             Null, Num(0), Num(3), Str(""), Str("title"), List(<<>>),
             List(<<One(Str("title"), Str("My Page"))>>)}

\* a call that has not been made yet
NotYet == [t |-> "notyet"]

\* validate_homepage_format(filename, parsed_content, raw_content)
ValidatorProbes(n) ==
    {[op |-> "validate", filename |-> Str(f), doc |-> d] :
        f \in ConfigFiles \cup {"docker.yaml"},
        d \in ShapeDocs \cup WidgetDocs \cup ServiceDocs}
    \cup {[op |-> "validate", filename |-> Str(f), doc |-> d] :
            f \in {"bookmarks.yaml", "services.yaml"}, d \in HrefDocs(n)}
    \cup {[op |-> "validate", filename |-> Str("settings.yaml"), doc |-> d] :
            d \in SettingsDocs}

NoProbe == [op |-> "none"]
NoRequest == [op |-> "none"]
\* no server thread is modelled
NoWorkers == <<>>

NoResponse == [success |-> FALSE, error |-> "none"]

---------------------------------------------------------------------------
(* The validator on its own                                                *)

InitValidator ==
    /\ probe \in ValidatorProbes(MaxProps)
    /\ result = NotYet
    /\ files = [f \in ConfigFiles |-> NoFile]
    /\ backups = [f \in ConfigFiles |-> NoFile]
    /\ pc = "idle"
    /\ request = NoRequest
    /\ response = NoResponse
    /\ workers = NoWorkers
    /\ log = <<>>

Validate ==
    /\ probe.op = "validate"
    /\ result = NotYet
    /\ result' = validate_homepage_format(probe.filename, probe.doc)
    /\ UNCHANGED <<files, backups, pc, request, response, probe, workers, log>>

NextValidator == Validate

SpecValidator == InitValidator /\ [][NextValidator]_vars

---------------------------------------------------------------------------
(* The converter on its own                                                *)

\* the most bookmarks in a category, and categories, of a generated
\* ordered document
MaxPerCat == 2
MaxCats == 2
\* the most bookmark entries in a category of a generated stored document
MaxEntries == 2

\* the names generated documents draw on, the first ones first
BookmarkPool == <<"Site", "Wiki", "Blog", "Docs">>
CategoryPool == <<"Dev", "Fun", "Ops", "Misc">>
FirstNames(pool, n) == {Str(pool[i]) : i \in 1..n}

\* the sequences of at most n elements of S, none of them repeated
DistinctSeqs(S, n) ==
    {q \in SeqsUpTo(S, n) : \A i, j \in DOMAIN q : i # j => q[i] # q[j]}

\* properties of a bookmark in an ordered document: href defined, icon and
\* abbr optional, in one key order or another
OrderedProps ==
    {One(Str("href"), Str("/x")), One(Str("href"), Str("")),
     Dict(<< <<Str("icon"), Str("/i.png")>>, <<Str("href"), Str("/x")>> >>),
     Dict(<< <<Str("href"), Str("/y")>>, <<Str("abbr"), Str("AB")>> >>),
     Dict(<< <<Str("abbr"), Str("AB")>>, <<Str("icon"), Str("/i.png")>>,
             <<Str("href"), Str("https://x")>> >>)}

\* the non-empty categories, of n bookmarks at most, of an ordered document
OrderedCategories(n) ==
    UNION {{Dict([i \in DOMAIN ns |-> <<ns[i], ps[i]>>]) :
               ps \in [DOMAIN ns -> OrderedProps]} :
              ns \in DistinctSeqs(FirstNames(BookmarkPool, n), n) \ {<<>>}}

\* the category that stands beside the one that is varied
OrderedNeighbour ==
    Dict(<< <<Str("Wiki"), Dict(<< <<Str("href"), Str("/w")>>,
                                   <<Str("icon"), Str("/i.png")>> >>)>>,
            <<Str("News"), One(Str("href"), Str("http://n"))>> >>)

\* ordered documents with non-empty categories: any category of perCat
\* bookmarks at most, alone or at any place among cats categories at most
OrderedDocs(perCat, cats) ==
    UNION {{Dict([i \in 1..k |-> <<Str(CategoryPool[i]),
                                   IF i = v THEN c ELSE OrderedNeighbour>>]) :
               v \in 1..k, c \in OrderedCategories(perCat)} : k \in 1..cats}
    \cup {Dict(<<>>)}

\* ordered documents outside the round trip's precondition: an empty
\* category, a bookmark without href, a null optional field
OtherOrderedDocs ==
    LET good == One(Str("Site"), One(Str("href"), Str("/x")))
    IN {Dict(<< <<Str("Dev"), Dict(<<>>)>>, <<Str("Fun"), good>> >>),
        Dict(<< <<Str("Dev"), good>>, <<Str("Fun"), Dict(<<>>)>> >>),
        One(Str("Dev"), One(Str("Site"), One(Str("icon"), Str("/i.png")))),
        One(Str("Dev"), One(Str("Site"),
            Dict(<< <<Str("href"), Str("/x")>>, <<Str("icon"), Null>> >>)))}

\* what a stored bookmark entry may map its name to
StoredBookmarkValues ==
    {List(<<p>>) : p \in
        {One(Str("href"), Str("/x")),
         One(Str("icon"), Str("/i.png")),
         Dict(<< <<Str("abbr"), Str("AB")>>, <<Str("href"), Str("/y")>>,
                 <<Str("icon"), Str("/i.png")>> >>),
         Dict(<< <<Str("href"), Str("/x")>>, <<Str("description"), Str("d")>> >>),
         One(Str("href"), Null),
         Str("text")}}
    \cup {List(<<>>),
          List(<<One(Str("icon"), Str("/i.png")), One(Str("href"), Str("/x"))>>),
          Str("text"), Null}

StoredBookmarkEntries ==
    {One(Str("Site"), v) : v \in StoredBookmarkValues}
    \cup {One(Str("Wiki"), v) :
             v \in {List(<<One(Str("href"), Str("/x"))>>), List(<<>>), Str("text")}}
    \cup {Str("text"), Dict(<<>>),
          Dict(<< <<Str("Site"), List(<<One(Str("href"), Str("/x"))>>)>>,
                  <<Str("Wiki"), List(<<One(Str("href"), Str("/y"))>>)>> >>)}

\* category entries whose value is a sequence of at most n bookmark entries
StoredCategoryLists(n) ==
    {One(Str("Dev"), List(es)) : es \in SeqsUpTo(StoredBookmarkEntries, n)}

\* category entries that are no single-key mapping to a sequence
StoredCategoryOthers ==
    {One(c, v) : c \in CatNames,
                 v \in {Null, Str("text"),
                        One(Str("Site"), List(<<One(Str("href"), Str("/x"))>>))}}
    \cup {Str("text"), Null, Dict(<<>>),
          Dict(<< <<Str("Dev"), List(<<One(Str("Site"),
                                     List(<<One(Str("href"), Str("/x"))>>))>>)>>,
                  <<Str("Fun"), List(<<One(Str("Wiki"),
                                     List(<<One(Str("href"), Str("/y"))>>))>>)>> >>)}

\* what a stored category entry may stand next to
StoredNeighbours ==
    {One(c, List(<<One(Str("Wiki"), List(<<One(Str("href"), Str("/w"))>>))>>)) :
        c \in CatNames}

\* what the legacy mapping form may map a category name to
LegacyValues ==
    LET props == One(Str("href"), Str("/x"))
    IN {One(Str("Site"), props),
        Dict(<< <<Str("Site"), props>>, <<Str("Wiki"), One(Str("abbr"), Str("WK"))>> >>),
        Dict(<<>>), Null, Num(3), Str(""), Str("text"), List(<<>>),
        List(<<List(<<Str("Site"), props>>)>>),
        List(<<One(Str("Site"), List(<<props>>))>>)}

\* the parsed content of a stored bookmarks file: a category entry, of n
\* bookmark entries at most, alone or before another, the shorter ones also
\* after another or beside a stray scalar, and the legacy mapping form
StoredDocs(n) ==
    {List(<<c>>) : c \in StoredCategoryLists(n) \cup StoredCategoryOthers}
    \cup {List(<<c, One(Str("Fun"), List(<<One(Str("Wiki"),
                        List(<<One(Str("href"), Str("/w"))>>))>>))>>) :
             c \in StoredCategoryLists(n)}
    \cup {List(<<c, d>>) : c \in StoredCategoryLists(n - 1) \cup StoredCategoryOthers,
                           d \in StoredNeighbours \cup {Str("text")}}
    \cup {List(<<d, c>>) : c \in StoredCategoryLists(n - 1) \cup StoredCategoryOthers,
                           d \in StoredNeighbours \cup {Str("text")}}
    \cup {One(Str("Dev"), v) : v \in LegacyValues}
    \cup {Dict(<< <<Str("Dev"), v>>,
                  <<Str("Fun"), One(Str("Wiki"), One(Str("href"), Str("/w")))>> >>) :
             v \in LegacyValues}
    \cup {Null, Num(3), Str("text"), List(<<>>), Dict(<<>>)}

\* save an ordered document and load it again; load a stored document and
\* save it again
ConverterProbes(perCat, cats, entries) ==
    {[op |-> "save_load", doc |-> d] :
        d \in OrderedDocs(perCat, cats) \cup OtherOrderedDocs}
    \cup {[op |-> "load_save", doc |-> d] : d \in StoredDocs(entries)}

InitConverter ==
    /\ probe \in ConverterProbes(MaxPerCat, MaxCats, MaxEntries)
    /\ result = NotYet
    /\ files = [f \in ConfigFiles |->
                  IF f = "bookmarks.yaml" /\ probe.op = "load_save"
                  THEN Text(probe.doc) ELSE NoFile]
    /\ backups = [f \in ConfigFiles |-> NoFile]
    /\ pc = "start"
    /\ request = NoRequest
    /\ response = NoResponse
    /\ workers = NoWorkers
    /\ log = <<>>

\* save_bookmarks(bookmarks): of the probe's document, or of the loaded one
ConvSave ==
    /\ \/ /\ probe.op = "save_load" /\ pc = "start"
          /\ files' = [files EXCEPT !["bookmarks.yaml"] = save_bookmarks(probe.doc)]
          /\ pc' = "saved"
       \/ /\ probe.op = "load_save" /\ pc = "loaded" /\ ~IsRaise(result)
          /\ files' = [files EXCEPT !["bookmarks.yaml"] = save_bookmarks(result.v)]
          /\ pc' = "done"
    /\ UNCHANGED <<backups, request, response, probe, result, workers, log>>

\* load_bookmarks(): of the file as stored, or as just saved
ConvLoad ==
    /\ \/ probe.op = "save_load" /\ pc = "saved" /\ pc' = "done"
       \/ probe.op = "load_save" /\ pc = "start" /\ pc' = "loaded"
    /\ LET l == load_bookmarks(files["bookmarks.yaml"]) IN
       /\ result' = l.out
       /\ files' = [files EXCEPT !["bookmarks.yaml"] = l.file]
    /\ UNCHANGED <<backups, request, response, probe, workers, log>>

NextConverter == ConvSave \/ ConvLoad

SpecConverter == InitConverter /\ [][NextConverter]_vars

---------------------------------------------------------------------------
(* Requests and the handlers' actions                                      *)

\* add requests are received while the stored document has fewer bookmarks
MaxBookmarks == 2
\* the largest position a reorder request names
MaxPosition == 2

Dev == Str("Dev")
Fun == Str("Fun")
Site == Str("Site")
Wiki == Str("Wiki")

\* [{Dev: [{Site: [{href: /x}]}]}, {Fun: [{Wiki: ...}, {Blog: ...}]}]
StoredThree ==
    List(<<One(Dev, List(<<One(Site, List(<<One(Str("href"), Str("/x"))>>))>>)),
           One(Fun, List(<<One(Wiki, List(<<Dict(<< <<Str("href"), Str("/w")>>,
                                                    <<Str("icon"), Str("/i.png")>> >>)>>)),
                           One(Str("Blog"), List(<<Dict(<< <<Str("abbr"), Str("BL")>>,
                                                           <<Str("href"), Str("http://b")>> >>)>>))>>))>>)

\* [{Dev: [{Site: [{href: /x}]}]}]
StoredOne ==
    List(<<One(Dev, List(<<One(Site, List(<<One(Str("href"), Str("/x"))>>))>>))>>)

\* [{Dev: []}]
StoredEmptyCategory == List(<<One(Dev, List(<<>>))>>)

AddRequests(categories, names, hrefs, extras) ==
    {[op |-> "add",
      form |-> [category |-> c, name |-> n, href |-> h,
                icon |-> x[1], abbr |-> x[2]]] :
        c \in categories, n \in names, h \in hrefs, x \in extras}

EditRequests(olds, news, hrefs, extras) ==
    {[op |-> "edit",
      form |-> [old_category |-> o[1], old_name |-> o[2],
                new_category |-> n[1], new_name |-> n[2],
                href |-> h, icon |-> x[1], abbr |-> x[2]]] :
        o \in olds, n \in news, h \in hrefs, x \in extras}

DeleteRequests(categories, names) ==
    {[op |-> "delete", form |-> [category |-> c, name |-> n]] :
        c \in categories, n \in names}

ReorderRequests(sources, targets, positions) ==
    {[op |-> "reorder",
      form |-> [source_category |-> o[1], bookmark_name |-> o[2],
                target_category |-> t, position |-> p]] :
        o \in sources, t \in targets, p \in positions}

SaveConfigRequests(names, contents) ==
    {[op |-> "save_config", form |-> [file |-> f, content |-> c]] :
        f \in names, c \in contents}

Positions == {Str(ToString(p)) : p \in 0..MaxPosition}

\* the requests of the bookmark handlers: well-formed ones, and ones with a
\* field empty, absent or unreadable
BookmarkRequests ==
    AddRequests(CatNames, BmNames, {Str("/x")}, {<<Str("/i.png"), Str("")>>})
    \cup AddRequests({Dev}, {Site}, {Null, Str("")}, {<<Null, Null>>})
    \cup AddRequests({Str("")}, {Site}, {Str("/x")}, {<<Null, Null>>})
    \cup AddRequests({Dev}, {Null}, {Str("/x")}, {<<Null, Null>>})
    \cup EditRequests(CatNames \X BmNames, {<<Dev, Site>>, <<Fun, Wiki>>},
                      {Null, Str("/y")}, {<<Null, Str("AB")>>})
    \cup EditRequests({<<Dev, Site>>}, {<<Dev, Site>>}, {Str("")}, {<<Null, Null>>})
    \cup EditRequests({<<Null, Site>>, <<Dev, Str("")>>}, {<<Dev, Site>>},
                      {Str("/y")}, {<<Null, Null>>})
    \cup DeleteRequests(CatNames, BmNames)
    \cup DeleteRequests({Null}, {Site})
    \cup DeleteRequests({Dev}, {Str("")})
    \cup ReorderRequests(CatNames \X BmNames, CatNames, Positions)
    \cup ReorderRequests({<<Dev, Site>>}, {Fun},
                         {Null, Str(""), Str("x"), Str("-1"), Str("10")})
    \cup ReorderRequests({<<Null, Site>>, <<Dev, Null>>}, {Fun}, {Str("0")})
    \cup ReorderRequests({<<Dev, Site>>}, {Str("")}, {Str("0")})

\* the requests of the raw editor
ConfigRequests ==
    SaveConfigRequests(
        AllowedFiles \cup {Str("docker.yaml"), Null},
        {Null, EmptyText, BadText, Text(Null),
         Text(StoredOne), Text(StoredEmptyCategory),
         Text(List(<<One(Dev, List(<<One(Site,
                 List(<<One(Str("href"), Str("ftp://x"))>>))>>))>>)),
         Text(List(<<One(Dev, List(<<One(Site,
                 List(<<One(Str("href"), Num(1))>>))>>))>>)),
         Text(One(Str("headerStyle"), Str("underlined"))),
         Text(One(Str("headerStyle"), Str("fancy"))),
         Text(List(<<One(Str("type"), Str("clock"))>>))})

\* a few requests of every kind
MixedRequests ==
    AddRequests({Dev}, {Site, Wiki}, {Str("/x")}, {<<Null, Null>>})
    \cup EditRequests({<<Dev, Site>>}, {<<Fun, Site>>}, {Null, Str("/y")},
                      {<<Null, Null>>})
    \cup DeleteRequests({Dev, Fun}, {Site})
    \cup ReorderRequests({<<Fun, Site>>}, {Dev}, {Str("0"), Str("1")})
    \cup SaveConfigRequests({Str("bookmarks.yaml"), Str("docker.yaml")},
                            {BadText, Text(StoredEmptyCategory)})

\* len of the stored document's bookmarks, as load_bookmarks sees them
RECURSIVE SumLens(_, _)
SumLens(pairs, i) ==
    IF i > Len(pairs) THEN 0
    ELSE Len(pairs[i][2].pairs) + SumLens(pairs, i + 1)

StoredBookmarks(file) ==
    LET l == load_bookmarks(file) IN
    IF IsRaise(l.out) THEN 0 ELSE SumLens(l.out.v.pairs, 1)

\* a request arrives
Receive(requests) ==
    /\ pc = "idle"
    /\ request' \in requests
    /\ request'.op = "add" =>
          StoredBookmarks(files["bookmarks.yaml"]) < MaxBookmarks
    /\ pc' = "pending"
    /\ response' = NoResponse
    /\ UNCHANGED <<files, backups, probe, result, workers, log>>

\* a bookmark handler answers the request in flight
Answer(h) ==
    /\ files' = [files EXCEPT !["bookmarks.yaml"] = h.file]
    /\ response' = h.response
    /\ pc' = "idle"
    /\ UNCHANGED <<backups, request, probe, result, workers, log>>

Add ==
    /\ pc = "pending" /\ request.op = "add"
    /\ Answer(add_bookmark(files["bookmarks.yaml"], request.form))

Edit ==
    /\ pc = "pending" /\ request.op = "edit"
    /\ Answer(edit_bookmark(files["bookmarks.yaml"], request.form))

Delete ==
    /\ pc = "pending" /\ request.op = "delete"
    /\ Answer(delete_bookmark(files["bookmarks.yaml"], request.form))

Reorder ==
    /\ pc = "pending" /\ request.op = "reorder"
    /\ Answer(reorder_bookmark(files["bookmarks.yaml"], request.form))

SaveConfig ==
    /\ pc = "pending" /\ request.op = "save_config"
    /\ LET r == save_config(files, backups, request.form) IN
       /\ files' = r.files
       /\ backups' = r.backups
       /\ response' = r.response
    /\ pc' = "idle"
    /\ UNCHANGED <<request, probe, result, workers, log>>

\* the state before any request: no file yet, or a stored file
InitHandlers(stored) ==
    /\ files \in {[f \in ConfigFiles |->
                     IF f = "bookmarks.yaml" THEN b ELSE NoFile] : b \in stored}
    /\ backups = [f \in ConfigFiles |-> NoFile]
    /\ pc = "idle"
    /\ request = NoRequest
    /\ response = NoResponse
    /\ workers = NoWorkers
    /\ log = <<>>
    /\ probe = NoProbe
    /\ result = NotYet

\* every handler, on a few requests of every kind
Init == InitHandlers({NoFile, Text(StoredOne)})
ReceiveAny == Receive(MixedRequests)
Next == ReceiveAny \/ Add \/ Edit \/ Delete \/ Reorder \/ SaveConfig
Spec == Init /\ [][Next]_vars

\* the bookmark handlers
InitBookmarks == InitHandlers({NoFile, Text(StoredOne), Text(StoredThree)})
ReceiveBookmark == Receive(BookmarkRequests)
NextBookmarks == ReceiveBookmark \/ Add \/ Edit \/ Delete \/ Reorder
SpecBookmarks == InitBookmarks /\ [][NextBookmarks]_vars

\* the raw editor
InitConfig == InitHandlers({NoFile, Text(StoredOne)})
ReceiveConfig == Receive(ConfigRequests)
NextConfig == ReceiveConfig \/ SaveConfig
SpecConfig == InitConfig /\ [][NextConfig]_vars

---------------------------------------------------------------------------
(* Claims about the validator                                              *)

\* C4, as claimed: validate_homepage_format never raises; for every parsed
\* document and every file name the call ends by returning None (valid) or
\* an error string.  The code raises AttributeError on an href that is
\* present and is not a string.
C4_ValidatorNeverRaises ==
    (probe.op = "validate" /\ result # NotYet) =>
        /\ result.t = "return"
        /\ result.v = Null \/ IsStr(result.v)

\* a bookmarks document of the expected nesting: a sequence of single-key
\* mappings to sequences of single-key mappings to sequences of mappings
C5_WellShaped(doc) ==
    /\ IsList(doc)
    /\ \A k \in DOMAIN doc.items :
          /\ IsDict(doc.items[k]) /\ Len(doc.items[k].pairs) = 1
          /\ IsList(doc.items[k].pairs[1][2])
          /\ LET bms == doc.items[k].pairs[1][2].items IN
             \A j \in DOMAIN bms :
                /\ IsDict(bms[j]) /\ Len(bms[j].pairs) = 1
                /\ IsList(bms[j].pairs[1][2])
                /\ \A i \in DOMAIN bms[j].pairs[1][2].items :
                      IsDict(bms[j].pairs[1][2].items[i])

\* the places <<category index, bookmark index>> of a well-shaped document
C5_Places(doc) ==
    UNION {{<<k, j>> : j \in DOMAIN doc.items[k].pairs[1][2].items} :
              k \in DOMAIN doc.items}
C5_Name(doc, pl) == doc.items[pl[1]].pairs[1][2].items[pl[2]].pairs[1][1]
C5_Props(doc, pl) == doc.items[pl[1]].pairs[1][2].items[pl[2]].pairs[1][2].items
C5_Before(p, q) == p[1] < q[1] \/ (p[1] = q[1] /\ p[2] <= q[2])

C5_ValidHref(v) ==
    IsStr(v) /\ \E pre \in {"http://", "https://", "/"} : StartsWith(v.s, pre)

\* some property mapping has a valid href
C5_SomeValidHref(props) ==
    \E i \in DOMAIN props :
        HasKey(props[i], Str("href")) /\ C5_ValidHref(Get(props[i], Str("href")))

\* some property mapping has an href, and every href there is is valid
C5_EveryHrefValid(props) ==
    /\ \E i \in DOMAIN props : HasKey(props[i], Str("href"))
    /\ \A i \in DOMAIN props :
          HasKey(props[i], Str("href")) => C5_ValidHref(Get(props[i], Str("href")))

C5_Validated ==
    /\ probe.op = "validate" /\ result # NotYet
    /\ probe.filename = Str("bookmarks.yaml")
    /\ C5_WellShaped(probe.doc) /\ probe.doc.items # <<>>

\* C5, as claimed: a well-shaped bookmarks document is valid exactly when
\* every bookmark has at least one property mapping with a valid href
\* (so [{href: 'ftp://x'}, {href: '/x'}] would be accepted).
C5_OneValidHrefSuffices ==
    C5_Validated =>
        (result = Return(Null)
            <=> \A pl \in C5_Places(probe.doc) :
                   C5_SomeValidHref(C5_Props(probe.doc, pl)))

\* C5, amended: a well-shaped, non-empty bookmarks document is valid exactly
\* when every bookmark has at least one property mapping with key href and
\* every href in any of its property mappings is a string starting with
\* 'http://', 'https://' or '/'; an error that is returned names the first
\* bookmark, in document order, that breaks this rule: "href in '<name>'
\* should be a valid URL" when it has an href, "Bookmark '<name>' must have
\* an 'href' property" when it has none.
C5_EveryHrefMustBeValid ==
    C5_Validated =>
        LET doc == probe.doc
            bad == {pl \in C5_Places(doc) : ~C5_EveryHrefValid(C5_Props(doc, pl))}
        IN /\ result = Return(Null) <=> bad = {}
           /\ (result.t = "return" /\ result.v # Null) =>
                 /\ bad # {}
                 /\ LET first == CHOOSE pl \in bad :
                                    \A q \in bad : C5_Before(pl, q)
                        name == C5_Name(doc, first)
                        props == C5_Props(doc, first)
                    IN result.v =
                         IF \E i \in DOMAIN props : HasKey(props[i], Str("href"))
                         THEN Str("href in '" \o name.s \o "' should be a valid URL")
                         ELSE Str("Bookmark '" \o name.s
                                  \o "' must have an 'href' property")

\* C5's case: a bookmark with an invalid href followed by a valid one is
\* refused, the error naming it
C5_Witness ==
    /\ C5_Validated
    /\ probe.doc = List(<<One(Str("Dev"), List(<<One(Str("Site"),
                      List(<<One(Str("href"), Str("ftp://x")),
                             One(Str("href"), Str("/x"))>>))>>))>>)
    /\ result = Return(Str("href in 'Site' should be a valid URL"))

C9_Validated ==
    /\ probe.op = "validate" /\ result # NotYet
    /\ probe.filename = Str("settings.yaml")

\* the checks of the settings kind, in their order
C9_Checks ==
    << [key |-> "title", kind |-> "string", msg |-> "title should be a string"],
       [key |-> "theme", kind |-> "string", msg |-> "theme should be a string"],
       [key |-> "color", kind |-> "string", msg |-> "color should be a string"],
       [key |-> "headerStyle", kind |-> "style",
        msg |-> "headerStyle should be 'boxed', 'underlined', or 'clean'"],
       [key |-> "layout", kind |-> "mapping", msg |-> "layout should be a dictionary"],
       [key |-> "providers", kind |-> "mapping",
        msg |-> "providers should be a dictionary"] >>

C9_Fails(doc, c) ==
    /\ \E i \in DOMAIN doc.pairs : doc.pairs[i][1] = Str(c.key)
    /\ LET v == Get(doc, Str(c.key)) IN
       CASE c.kind = "string"  -> v.t # "str"
         [] c.kind = "style"   -> ~(v.t = "str" /\ v.s \in {"boxed", "underlined", "clean"})
         [] c.kind = "mapping" -> v.t # "map"

\* C9: the settings kind is valid exactly for a non-empty mapping in which
\* title, theme and color, if present, are strings, headerStyle, if present,
\* is 'boxed', 'underlined' or 'clean', and layout and providers, if
\* present, are mappings; an empty document is refused as an empty
\* configuration, another non-mapping as not a dictionary, and otherwise
\* the first failing check in the order title, theme, color, headerStyle,
\* layout, providers gives the one error returned.
C9_SettingsValidator ==
    C9_Validated =>
        LET doc == probe.doc
            failing == {i \in DOMAIN C9_Checks : C9_Fails(doc, C9_Checks[i])}
        IN /\ result.t = "return"
           /\ result.v = Null <=> (Truthy(doc) /\ doc.t = "map" /\ failing = {})
           /\ ~Truthy(doc) => result.v = Str("Empty configuration file")
           /\ (Truthy(doc) /\ doc.t # "map") =>
                 result.v = Str("Settings should be a dictionary of key-value pairs")
           /\ (Truthy(doc) /\ doc.t = "map" /\ failing # {}) =>
                 result.v = Str(C9_Checks[CHOOSE i \in failing :
                                            \A h \in failing : i <= h].msg)

\* C9's case: providers, written first, and headerStyle both fail; the
\* headerStyle error is the one returned
C9_Witness ==
    /\ C9_Validated
    /\ probe.doc = Dict(<< <<Str("providers"), Str("none")>>,
                           <<Str("headerStyle"), Str("fancy")>> >>)
    /\ result = Return(Str("headerStyle should be 'boxed', 'underlined', or 'clean'"))

---------------------------------------------------------------------------
(* Claims about the converter                                              *)

\* d1 == d2 for two plain dicts: the same keys with the same values, in
\* any order
SameFields(d1, d2) ==
    /\ \A i \in DOMAIN d1.pairs : HasKey(d2, d1.pairs[i][1])
                                  /\ Get(d2, d1.pairs[i][1]) = d1.pairs[i][2]
    /\ \A i \in DOMAIN d2.pairs : HasKey(d1, d2.pairs[i][1])

\* two ordered documents with the same categories in the same order, the
\* same bookmarks in the same order in each, and equal properties
SameOrdered(a, b) ==
    /\ KeysOf(a) = KeysOf(b)
    /\ \A c \in DOMAIN a.pairs :
          /\ KeysOf(a.pairs[c][2]) = KeysOf(b.pairs[c][2])
          /\ \A m \in DOMAIN a.pairs[c][2].pairs :
                SameFields(a.pairs[c][2].pairs[m][2], b.pairs[c][2].pairs[m][2])

\* the ordered documents of the round trip: categories non-empty, every
\* bookmark's properties among href, icon, abbr with href defined and no
\* null value
C1_Pre(d) ==
    \A c \in DOMAIN d.pairs :
        /\ d.pairs[c][2].pairs # <<>>
        /\ \A m \in DOMAIN d.pairs[c][2].pairs :
              LET props == d.pairs[c][2].pairs[m][2] IN
              /\ HasKey(props, Str("href"))
              /\ \A i \in DOMAIN props.pairs :
                    /\ props.pairs[i][1] \in {Str("href"), Str("icon"), Str("abbr")}
                    /\ props.pairs[i][2] # Null

\* C1: saving an ordered document of that kind with save_bookmarks and
\* loading the file with load_bookmarks gives the document back: the same
\* categories in the same order, the same bookmarks in the same order, the
\* same properties.
C1_RoundTrip ==
    (probe.op = "save_load" /\ pc = "done" /\ C1_Pre(probe.doc)) =>
        /\ result.t = "return"
        /\ SameOrdered(result.v, probe.doc)

\* C1's case: a document of two categories, one of them with two bookmarks
\* whose properties are not in the converter's key order, has made the trip
C1_Witness ==
    /\ probe.op = "save_load" /\ pc = "done" /\ C1_Pre(probe.doc)
    /\ Len(probe.doc.pairs) = 2
    /\ Len(probe.doc.pairs[1][2].pairs) = 2
    /\ probe.doc.pairs[1][2].pairs[1][2].pairs[1][1] = Str("abbr")
    /\ result.t = "return"
    /\ files["bookmarks.yaml"] = Text(homepage_format(probe.doc))

\* a single-key mapping whose value is a sequence
C6_KeyedList(e) == IsDict(e) /\ Len(e.pairs) = 1 /\ IsList(e.pairs[1][2])

\* category c's bookmark b comes from a well-formed entry of the list form:
\* single-key mappings, sequences, and a first properties element that is
\* a mapping
C6_FromListEntry(doc, c, b) ==
    \E k \in DOMAIN doc.items :
        /\ C6_KeyedList(doc.items[k]) /\ doc.items[k].pairs[1][1] = c
        /\ \E j \in DOMAIN doc.items[k].pairs[1][2].items :
              LET e == doc.items[k].pairs[1][2].items[j] IN
              /\ C6_KeyedList(e) /\ e.pairs[1][1] = b
              /\ e.pairs[1][2].items # <<>>
              /\ IsDict(e.pairs[1][2].items[1])

\* C6, as claimed: load_bookmarks never raises; a malformed entry is
\* skipped and contributes no bookmark (every bookmark of the result comes
\* from a well-formed entry; in the legacy mapping form from a category
\* value that is a mapping), and every well-formed entry is converted.
\* The code raises on a first properties element that is no mapping and on
\* a legacy category value that is no mapping, and it converts every key of
\* a mapping with several keys.
C6_LenientLoad ==
    (probe.op = "load_save" /\ pc \in {"loaded", "done"}) =>
        /\ result.t = "return"
        /\ LET doc == probe.doc
               out == result.v
           IN /\ \A c \in DOMAIN out.pairs :
                    \A m \in DOMAIN out.pairs[c][2].pairs :
                       LET cat == out.pairs[c][1]
                           bm == out.pairs[c][2].pairs[m][1]
                       IN CASE IsList(doc) -> C6_FromListEntry(doc, cat, bm)
                            [] IsDict(doc) -> /\ IsDict(Get(doc, cat))
                                              /\ HasKey(Get(doc, cat), bm)
                            [] OTHER -> FALSE
              /\ IsList(doc) =>
                    \A cat \in CatNames, bm \in BmNames :
                       (C6_FromListEntry(doc, cat, bm)
                        /\ Cardinality({k \in DOMAIN doc.items :
                              IsDict(doc.items[k])
                              /\ HasKey(doc.items[k], cat)}) = 1)
                          => /\ HasKey(out, cat)
                             /\ HasKey(Get(out, cat), bm)

\* the list form C7 speaks of: single-key category mappings to non-empty
\* sequences of single-key bookmark mappings to sequences of mappings
C7_WellFormed(doc) ==
    /\ IsList(doc)
    /\ \A k \in DOMAIN doc.items :
          /\ C6_KeyedList(doc.items[k])
          /\ doc.items[k].pairs[1][2].items # <<>>
          /\ \A j \in DOMAIN doc.items[k].pairs[1][2].items :
                LET e == doc.items[k].pairs[1][2].items[j] IN
                /\ C6_KeyedList(e)
                /\ \A i \in DOMAIN e.pairs[1][2].items : IsDict(e.pairs[1][2].items[i])

\* two list-form documents with the same categories in the same order, the
\* same bookmarks in the same order, and for each bookmark the same
\* property mappings up to the order of their fields
C7_SameListForm(a, b) ==
    /\ Len(a.items) = Len(b.items)
    /\ \A k \in DOMAIN a.items :
          LET ca == a.items[k].pairs[1]
              cb == b.items[k].pairs[1]
          IN /\ ca[1] = cb[1]
             /\ Len(ca[2].items) = Len(cb[2].items)
             /\ \A j \in DOMAIN ca[2].items :
                   LET ba == ca[2].items[j].pairs[1]
                       bb == cb[2].items[j].pairs[1]
                   IN /\ ba[1] = bb[1]
                      /\ Len(ba[2].items) = Len(bb[2].items)
                      /\ \A i \in DOMAIN ba[2].items :
                            SameFields(ba[2].items[i], bb[2].items[i])

\* what the amended C7 asks on top: names not repeated, and one property
\* mapping per bookmark, its fields among href, icon, abbr, href one of
\* them, no null value
C7_Normal(doc) ==
    /\ \A k, h \in DOMAIN doc.items :
          k # h => doc.items[k].pairs[1][1] # doc.items[h].pairs[1][1]
    /\ \A k \in DOMAIN doc.items :
          LET es == doc.items[k].pairs[1][2].items IN
          /\ \A j, h \in DOMAIN es : j # h => es[j].pairs[1][1] # es[h].pairs[1][1]
          /\ \A j \in DOMAIN es :
                /\ Len(es[j].pairs[1][2].items) = 1
                /\ LET props == es[j].pairs[1][2].items[1] IN
                   /\ HasKey(props, Str("href"))
                   /\ \A i \in DOMAIN props.pairs :
                         /\ props.pairs[i][1] \in {Str("href"), Str("icon"), Str("abbr")}
                         /\ props.pairs[i][2] # Null

C7_Resaved == probe.op = "load_save" /\ pc = "done"

\* C7, as claimed: loading any well-formed list-form document that the
\* bookmarks validator accepts and saving it unchanged writes a list form
\* with the same categories, the same bookmarks and the same property
\* fields and values.
C7_LoadSaveKeepsAnyWellFormed ==
    (probe.op = "load_save" /\ pc \in {"loaded", "done"}
     /\ C7_WellFormed(probe.doc)
     /\ validate_bookmarks_format(probe.doc) = Return(Null)) =>
        /\ result.t = "return"
        /\ pc = "done" =>
              /\ files["bookmarks.yaml"].k = "yaml"
              /\ C7_SameListForm(files["bookmarks.yaml"].doc, probe.doc)

\* C7, amended: loading a well-formed list-form document and saving it
\* unchanged writes a list form with the same categories in the same order,
\* the same bookmarks in the same order and the same property fields and
\* values, provided no category name is repeated, no bookmark name is
\* repeated in its category, and every bookmark has exactly one property
\* mapping, with href, with no field other than href, icon and abbr, and
\* with no null value.
C7_LoadSaveKeepsNormalForm ==
    (probe.op = "load_save" /\ pc \in {"loaded", "done"}
     /\ C7_WellFormed(probe.doc) /\ C7_Normal(probe.doc)) =>
        /\ result.t = "return"
        /\ pc = "done" =>
              /\ files["bookmarks.yaml"].k = "yaml"
              /\ C7_SameListForm(files["bookmarks.yaml"].doc, probe.doc)

\* C7's case: a document of two categories, the first with two bookmarks,
\* one of them with abbr, href and icon in that order, has been loaded and
\* saved again
C7_Witness ==
    /\ C7_Resaved /\ C7_WellFormed(probe.doc) /\ C7_Normal(probe.doc)
    /\ Len(probe.doc.items) = 2
    /\ Len(probe.doc.items[1].pairs[1][2].items) = 2
    /\ \E j \in 1..2 :
          Len(probe.doc.items[1].pairs[1][2].items[j].pairs[1][2].items[1].pairs) = 3
    /\ files["bookmarks.yaml"] # Text(probe.doc)

---------------------------------------------------------------------------
(* Claims about the handlers                                               *)

BookmarksFile == "bookmarks.yaml"

\* the stored bookmarks as load_bookmarks reads them
Persisted(fs) == load_bookmarks(fs[BookmarksFile]).out

\* the hrefs of the bookmarks of an ordered document
HrefsOf(d) ==
    UNION {{GetOr(d.pairs[c][2].pairs[m][2], Str("href"), Null) :
               m \in DOMAIN d.pairs[c][2].pairs} : c \in DOMAIN d.pairs}

\* C2, as claimed: after any sequence of add, edit, delete and reorder
\* requests on a stored document whose bookmarks all have a non-empty href,
\* every stored bookmark has a non-empty href.  An edit request whose href
\* is empty or absent stores the bookmark with href ''.
C2_HrefNeverEmpty ==
    (files[BookmarksFile] # NoFile /\ ~IsRaise(Persisted(files))) =>
        \A h \in HrefsOf(Persisted(files).v) : IsStr(h) /\ h.s # ""

\* the category entries {name: [...]} of a stored list form that have no
\* bookmark entry
EmptyCategories(file) ==
    IF file.k = "yaml" /\ IsList(file.doc)
    THEN {k \in DOMAIN file.doc.items :
             /\ IsDict(file.doc.items[k])
             /\ \E i \in DOMAIN file.doc.items[k].pairs :
                   file.doc.items[k].pairs[i][2] = List(<<>>)}
    ELSE {}

\* C3, as claimed: whatever sequence of add, edit, delete, reorder and raw
\* saves of bookmarks.yaml wrote it, the stored list form has no category
\* with an empty bookmark sequence.  A raw save of "- Dev: []" is accepted
\* by the validator and written as it is.
C3_NoEmptyCategory ==
    files[BookmarksFile] # NoFile => EmptyCategories(files[BookmarksFile]) = {}

\* seq without the pairs whose key is name
Without(seq, name) ==
    LET other(p) == p[1] # name IN SelectSeq(seq, other)

\* the bookmarks of a category of an ordered document, none if it is absent
BookmarksOf(d, category) ==
    IF HasKey(d, category) THEN Get(d, category).pairs ELSE <<>>

\* a reorder request in flight that moves a stored bookmark to another
\* category, which has no bookmark of that name, at a position p >= 0
C8_Moves ==
    /\ pc = "pending" /\ request.op = "reorder"
    /\ Truthy(request.form.source_category) /\ Truthy(request.form.bookmark_name)
    /\ Truthy(request.form.target_category)
    /\ request.form.source_category # request.form.target_category
    /\ IsStr(request.form.position)
    /\ ~IsRaise(ParseInt(request.form.position.s))
    /\ ParseInt(request.form.position.s).v >= 0
    /\ ~IsRaise(Persisted(files))
    /\ \E i \in DOMAIN BookmarksOf(Persisted(files).v, request.form.source_category) :
          BookmarksOf(Persisted(files).v, request.form.source_category)[i][1]
             = request.form.bookmark_name
    /\ \A i \in DOMAIN BookmarksOf(Persisted(files).v, request.form.target_category) :
          BookmarksOf(Persisted(files).v, request.form.target_category)[i][1]
             # request.form.bookmark_name

C8_Step ==
    C8_Moves =>
        LET A == request.form.source_category
            B == request.form.target_category
            n == request.form.bookmark_name
            p == ParseInt(request.form.position.s).v
            before == Persisted(files).v
            Aold == BookmarksOf(before, A)
            Bold == BookmarksOf(before, B)
            data == Get(Get(before, A), n)
            k == IF p < Len(Bold) THEN p ELSE Len(Bold)
        IN /\ response'.success
           /\ ~IsRaise(Persisted(files'))
           /\ LET after == Persisted(files').v
                  Anew == BookmarksOf(after, A)
                  Bnew == BookmarksOf(after, B)
              IN /\ Anew = Without(Aold, n)
                 /\ HasKey(after, A) <=> Anew # <<>>
                 /\ Len(Bnew) = Len(Bold) + 1
                 /\ Bnew[k + 1] = <<n, data>>
                 /\ \A i \in 1..k : Bnew[i] = Bold[i]
                 /\ \A i \in (k + 1)..Len(Bold) : Bnew[i + 1] = Bold[i]

\* C8: a reorder request that moves bookmark n from category A to another
\* category B at a position p >= 0, n stored in A and B holding no bookmark
\* named n, succeeds and leaves n out of A (A out of the document if n was
\* its only bookmark), n with its data at index min(p, |B|) of B (B created
\* if absent), B's bookmarks before that index in place, those from it on
\* one place to the right, and A's other bookmarks in their order.
C8_ReorderAcross == [][C8_Step]_vars

\* C8's case: Site has moved from Dev, its only bookmark, to position 1 of
\* Fun, between Wiki and Blog
C8_Witness ==
    /\ pc = "idle" /\ request.op = "reorder" /\ response.success
    /\ request.form = [source_category |-> Dev, bookmark_name |-> Site,
                       target_category |-> Fun, position |-> Str("1")]
    /\ ~IsRaise(Persisted(files))
    /\ KeysOf(Persisted(files).v) = <<Fun>>
    /\ KeysOf(Get(Persisted(files).v, Fun)) = <<Wiki, Site, Str("Blog")>>

\* a save_config request in flight passes the gate: an allowed name, some
\* content, that parses, and that the validator finds no error in
C10_Accepted ==
    /\ request.form.file \in {Str("bookmarks.yaml"), Str("services.yaml"),
                              Str("settings.yaml"), Str("widgets.yaml")}
    /\ request.form.content \notin {Null, EmptyText}
    /\ ~IsRaise(safe_load(request.form.content))
    /\ validate_homepage_format(request.form.file,
                                safe_load(request.form.content).v) = Return(Null)

C10_Step ==
    (pc = "pending" /\ request.op = "save_config") =>
        IF C10_Accepted
        THEN LET name == request.form.file.s IN
             /\ files' = [files EXCEPT ![name] = request.form.content]
             /\ backups' = [backups EXCEPT
                              ![name] = IF files[name] # NoFile THEN files[name]
                                        ELSE @]
             /\ response'.success
        ELSE /\ files' = files
             /\ backups' = backups
             /\ ~response'.success
             /\ response'.error # ""

\* C10: a save_config request changes a stored file only when the name is
\* one of the four allowed ones, the content is not empty, it parses and
\* the validator returns no error for it; then the file holds the submitted
\* text, its backup holds what the file held just before if it existed, and
\* the other files and backups are as they were.  In every other case the
\* files and the backups are as they were and the response is an error.
C10_SaveConfigGated == [][C10_Step]_vars

\* C10's case: an accepted save has overwritten a file that existed, and
\* the backup holds the text it replaced
C10_Witness ==
    /\ pc = "idle" /\ request.op = "save_config" /\ response.success
    /\ backups[request.form.file.s] # NoFile
    /\ backups[request.form.file.s] # files[request.form.file.s]
    /\ files[request.form.file.s] = request.form.content

---------------------------------------------------------------------------
(* Requests that leave a name out                                          *)

\* the requests of the bookmark handlers with a category or a bookmark
\* name absent or empty in one field or another
NameRequests ==
    AddRequests({Dev, Null, Str("")}, {Site, Null, Str("")}, {Str("/x")},
                {<<Null, Null>>})
    \cup EditRequests({<<Dev, Site>>, <<Fun, Wiki>>},
                      {<<Null, Site>>, <<Dev, Null>>, <<Str(""), Site>>,
                       <<Dev, Str("")>>, <<Null, Null>>, <<Fun, Wiki>>},
                      {Str("/y")}, {<<Null, Null>>})
    \cup DeleteRequests({Dev, Fun, Null, Str("")}, {Site, Wiki, Null})
    \cup ReorderRequests({<<Dev, Site>>, <<Fun, Wiki>>},
                         {Dev, Fun, Null, Str("")}, {Str("0")})

InitNames == InitHandlers({Text(StoredOne), Text(StoredThree)})
ReceiveNames == Receive(NameRequests)
NextNames == ReceiveNames \/ Add \/ Edit \/ Delete \/ Reorder
SpecNames == InitNames /\ [][NextNames]_vars

\* the category names and the bookmark names of an ordered document
NamesOf(d) ==
    {d.pairs[c][1] : c \in DOMAIN d.pairs}
    \cup UNION {{d.pairs[c][2].pairs[m][1] : m \in DOMAIN d.pairs[c][2].pairs} :
                   c \in DOMAIN d.pairs}

\* C13, as claimed: after any sequence of add, edit, delete and reorder
\* requests on a stored document whose names are non-empty strings, every
\* category name and every bookmark name stored is a non-empty string.
\* An edit request without new_category or new_name, or with an empty one,
\* stores the bookmark under the name None or ''.
C13_NamesWellFormed ==
    (files[BookmarksFile] # NoFile /\ ~IsRaise(Persisted(files))) =>
        \A n \in NamesOf(Persisted(files).v) : IsStr(n) /\ n.s # ""

---------------------------------------------------------------------------
(* The bookmarks an edit or a reorder does not name                        *)

\* the (category, name) of the stored bookmark an edit or a reorder request
\* names
C12_Named ==
    IF request.op = "edit"
    THEN <<request.form.old_category, request.form.old_name>>
    ELSE <<request.form.source_category, request.form.bookmark_name>>

\* every bookmark of ordered document before, but the named one, is in
\* ordered document after in its category with its data
C12_OthersKept(before, after, named) ==
    \A c \in DOMAIN before.pairs :
       \A m \in DOMAIN before.pairs[c][2].pairs :
          LET category == before.pairs[c][1]
              name == before.pairs[c][2].pairs[m][1]
          IN <<category, name>> # named =>
                /\ HasKey(after, category)
                /\ HasKey(Get(after, category), name)
                /\ Get(Get(after, category), name) = before.pairs[c][2].pairs[m][2]

C12_Step ==
    (/\ pc = "pending" /\ request.op \in {"edit", "reorder"}
     /\ response'.success) =>
        /\ ~IsRaise(Persisted(files)) /\ ~IsRaise(Persisted(files'))
        /\ C12_OthersKept(Persisted(files).v, Persisted(files').v, C12_Named)
        /\ SumLens(Persisted(files').v.pairs, 1) = SumLens(Persisted(files).v.pairs, 1)

\* C12, as claimed: after every successful edit and every successful
\* reorder, every stored bookmark other than the one the request names is
\* still stored in the same category with the same href/icon/abbr, and the
\* number of stored bookmarks is the same, also when the destination
\* category already holds another bookmark of the destination name.  In
\* that case the code overwrites the bookmark that was there.
C12_OthersUntouched == [][C12_Step]_vars


---------------------------------------------------------------------------
(* Two requests handled by two server threads                              *)

\* app.run serves each request in a thread of its own; a handler reads the
\* bookmarks file once, in load_bookmarks, and writes it once, whole, in
\* save_bookmarks, and nothing keeps another thread out in between.  The
\* read and the write are each taken as one step.
Worker == {1, 2}

Blog == Str("Blog")
News == Str("News")

\* the requests of the two threads: some on the same bookmark, some on
\* different ones, some that are refused on the stored document
RaceRequests ==
    AddRequests({Dev}, {Wiki, News}, {Str("/x")}, {<<Null, Null>>})
    \cup AddRequests({Fun}, {Wiki}, {Str("/x")}, {<<Str("/i.png"), Null>>})
    \cup EditRequests({<<Dev, Site>>}, {<<Dev, Site>>, <<Fun, Site>>},
                      {Str("/y")}, {<<Null, Str("AB")>>})
    \cup DeleteRequests({Dev, Fun}, {Site, Blog})
    \cup ReorderRequests({<<Fun, Wiki>>, <<Dev, Site>>}, {Dev, Fun}, {Str("0")})

\* the handler of a request, on the file text it reads
Handle(file, req) ==
    CASE req.op = "add" -> add_bookmark(file, req.form)
      [] req.op = "edit" -> edit_bookmark(file, req.form)
      [] req.op = "delete" -> delete_bookmark(file, req.form)
      [] req.op = "reorder" -> reorder_bookmark(file, req.form)

\* a slip: the handler works on what is stored when it saves
HandlerOutcomeFresh(loaded, stored, req) == Handle(stored, req)

\* what a handler gives after its load: it goes by what it loaded, whatever
\* is stored by now
HandlerOutcome(loaded, stored, req) == Handle(loaded, req)

InitRace ==
    /\ files \in {[f \in ConfigFiles |->
                     IF f = "bookmarks.yaml" THEN b ELSE NoFile] :
                        b \in {NoFile, Text(StoredOne), Text(StoredThree)}}
    /\ backups = [f \in ConfigFiles |-> NoFile]
    /\ pc = "idle"
    /\ request = NoRequest
    /\ response = NoResponse
    /\ probe = NoProbe
    /\ result = NotYet
    /\ workers = [w \in Worker |->
                    [pc |-> "idle", request |-> NoRequest, loaded |-> NoFile,
                     response |-> NoResponse]]
    /\ log = <<>>

\* a request reaches a thread
Arrive(w) ==
    /\ workers[w].pc = "idle"
    /\ \E r \in RaceRequests :
          workers' = [workers EXCEPT ![w].pc = "received", ![w].request = r]
    /\ UNCHANGED <<files, backups, pc, request, response, probe, result, log>>

\* bookmarks = load_bookmarks(): the thread reads the file, and writes the
\* default bookmarks when there is none
Load(w) ==
    /\ workers[w].pc = "received"
    /\ workers' = [workers EXCEPT ![w].pc = "loaded",
                                  ![w].loaded = files["bookmarks.yaml"]]
    /\ files' = [files EXCEPT !["bookmarks.yaml"] = load_bookmarks(@).file]
    /\ log' = Append(log, <<w, "load">>)
    /\ UNCHANGED <<backups, pc, request, response, probe, result>>

\* the rest of the handler: it refuses the request, or changes what it
\* loaded and calls save_bookmarks, which rewrites the whole file
Finish(w) ==
    /\ workers[w].pc = "loaded"
    /\ LET h == HandlerOutcome(workers[w].loaded, files["bookmarks.yaml"],
                               workers[w].request)
       IN /\ workers' = [workers EXCEPT ![w].pc = "done",
                                        ![w].response = h.response]
          /\ files' = IF h.response.success
                      THEN [files EXCEPT !["bookmarks.yaml"] = h.file]
                      ELSE files
          /\ log' = Append(log, <<w, IF h.response.success THEN "save"
                                     ELSE "refuse">>)
    /\ UNCHANGED <<backups, pc, request, response, probe, result>>

ArriveAny == \E w \in Worker : Arrive(w)
LoadAny == \E w \in Worker : Load(w)
FinishAny == \E w \in Worker : Finish(w)
NextRace == ArriveAny \/ LoadAny \/ FinishAny
SpecRace == InitRace /\ [][NextRace]_vars

---------------------------------------------------------------------------
(* Claims about two requests at once                                       *)

\* both threads have answered
C11_AllDone == \A w \in Worker : workers[w].pc = "done"

\* both threads loaded before either saved or refused
C11_Interleaved ==
    Len(log) >= 2 /\ log[1][2] = "load" /\ log[2][2] = "load"

\* one thread answered before the other loaded
C11_Serial ==
    Len(log) >= 3 /\ log[1][2] = "load" /\ log[2][2] # "load"

\* the threads in the order of their answers, once both have answered
C11_First == log[CHOOSE i \in DOMAIN log : log[i][2] # "load"
                    /\ \A j \in 1..(i - 1) : log[j][2] = "load"][1]
C11_Last == log[Len(log)][1]

\* the stored bookmarks a request is about
C11_Touches(req) ==
    CASE req.op = "add" -> {<<req.form.category, req.form.name>>}
      [] req.op = "delete" -> {<<req.form.category, req.form.name>>}
      [] req.op = "edit" -> {<<req.form.old_category, req.form.old_name>>,
                             <<req.form.new_category, req.form.new_name>>}
      [] req.op = "reorder" ->
            {<<req.form.source_category, req.form.bookmark_name>>,
             <<req.form.target_category, req.form.bookmark_name>>}

C11_Stored(d, category, name) ==
    HasKey(d, category) /\ HasKey(Get(d, category), name)

\* the change a request asks for is in ordered document d
C11_ChangeIn(req, d) ==
    CASE req.op = "add" ->
            /\ C11_Stored(d, req.form.category, req.form.name)
            /\ Get(Get(d, req.form.category), req.form.name)
                  = BookmarkData(req.form.href, req.form.icon, req.form.abbr)
      [] req.op = "delete" -> ~C11_Stored(d, req.form.category, req.form.name)
      [] req.op = "edit" ->
            /\ C11_Stored(d, req.form.new_category, req.form.new_name)
            /\ Get(Get(d, req.form.new_category), req.form.new_name)
                  = BookmarkData(IF Truthy(req.form.href) THEN req.form.href
                                 ELSE Str(""),
                                 req.form.icon, req.form.abbr)
            /\ <<req.form.old_category, req.form.old_name>>
                  # <<req.form.new_category, req.form.new_name>>
               => ~C11_Stored(d, req.form.old_category, req.form.old_name)
      [] req.op = "reorder" ->
            /\ C11_Stored(d, req.form.target_category, req.form.bookmark_name)
            /\ req.form.source_category # req.form.target_category
               => ~C11_Stored(d, req.form.source_category,
                              req.form.bookmark_name)

\* both requests were accepted, they are about different bookmarks, and
\* what each thread loaded did not hold the change of its request yet
C11_TwoChanges ==
    /\ \A w \in Worker : workers[w].response.success
    /\ C11_Touches(workers[1].request) \cap C11_Touches(workers[2].request) = {}
    /\ \A w \in Worker :
          ~C11_ChangeIn(workers[w].request,
                        load_bookmarks(workers[w].loaded).out.v)

\* C11: a request is a load step and a whole-file save step with nothing
\* held in between.  When two requests both load before either saves, the
\* stored document after both have answered is the one the request that
\* saved last wrote, worked out from what that request loaded, which is
\* what the other one loaded too; if both were accepted and are about
\* different bookmarks, the stored document has the later one's change
\* and not the earlier one's.  When one request answers before the other
\* loads, and both are accepted and about different bookmarks, the stored
\* document has both changes.
C11_LastWriteWins ==
    C11_AllDone =>
        /\ (C11_Interleaved /\ workers[C11_Last].response.success) =>
              /\ files[BookmarksFile]
                    = Handle(workers[C11_Last].loaded,
                             workers[C11_Last].request).file
              /\ ~IsRaise(load_bookmarks(workers[C11_First].loaded).out)
              /\ SameOrdered(load_bookmarks(workers[C11_Last].loaded).out.v,
                             load_bookmarks(workers[C11_First].loaded).out.v)
        /\ (C11_Interleaved /\ C11_TwoChanges) =>
              /\ C11_ChangeIn(workers[C11_Last].request, Persisted(files).v)
              /\ ~C11_ChangeIn(workers[C11_First].request, Persisted(files).v)
        /\ (C11_Serial /\ C11_TwoChanges) =>
              \A w \in Worker :
                 C11_ChangeIn(workers[w].request, Persisted(files).v)

\* C11's case, a lost update: two add requests for different bookmarks of
\* Dev both loaded before either saved, both were answered success, and
\* the stored document has only the bookmark of the one that saved last
C11_Witness ==
    /\ C11_AllDone /\ C11_Interleaved /\ C11_TwoChanges
    /\ \A w \in Worker : workers[w].request.op = "add"
    /\ ~C11_Stored(Persisted(files).v, workers[C11_First].request.form.category,
                   workers[C11_First].request.form.name)
    /\ C11_Stored(Persisted(files).v, workers[C11_Last].request.form.category,
                  workers[C11_Last].request.form.name)

=============================================================================
